---- MODULE Spec2Model ----
(***************************************************************************)
(* A model of hoto (src/hoto.py): rename HTML and MAFF files from HTML     *)
(* tags and metadata.                                                      *)
(*                                                                         *)
(* A Python str is a sequence of one-character strings.  A Python value    *)
(* that may be None, a str or an int is a record [t, v] (PyNone, PyStr,    *)
(* PyInt; v holds the characters of a str and the decimal digits of an     *)
(* int).  An operation that may raise returns a record whose field exc     *)
(* names the exception ("none" when it returned).                          *)
(***************************************************************************)
EXTENDS Integers, Sequences, FiniteSets, TLC

VARIABLES pc, argv, args, fs, os, todo, stdout, moves, exc, call, ret

vars == <<pc, argv, args, fs, os, todo, stdout, moves, exc, call, ret>>

(***************************************************************************)
(* Bounds of the model.                                                    *)
(***************************************************************************)
\* longest string handed to filenameClean by the sanitizer harness
MaxLen == 4
\* longest extension handed to filenameClean by the sanitizer harness
MaxExtLen == 2
\* longest run of characters put before and after the filler of a matched text
MaxEdge == 2
\* most entries in an archive handed to readPath by the loader harness
MaxEntries == 3
\* longest format string made of braces and the characters of "h1"
MaxFmtLen == 4
\* most files named on one command line
MaxFiles == 2

(***************************************************************************)
(* Python values and str methods.                                          *)
(***************************************************************************)
PyNone == [t |-> "none", v |-> <<>>]

PyStr(s) == [t |-> "str", v |-> s]

PyInt(digits) == [t |-> "int", v |-> digits]

\* bool(x) of a None / str / int value
Truthy(x) ==
    CASE x.t = "none" -> FALSE
      [] x.t = "str" -> x.v # <<>>
      [] OTHER -> \E i \in 1..Len(x.v) : x.v[i] # "0"

\* all sequences over S of length at most n
SeqsUpTo(S, n) == UNION {[1..k -> S] : k \in 0..n}

\* the least and the greatest of a non-empty set of positions
FirstOf(S) == CHOOSE i \in S : \A j \in S : i <= j

LastOf(S) == CHOOSE i \in S : \A j \in S : i >= j

\* s[i:] (1-based i)
Drop(s, i) == SubSeq(s, i, Len(s))

\* pat occurs in s at position i
OccursAt(s, i, pat) ==
    /\ i >= 1
    /\ i + Len(pat) - 1 <= Len(s)
    /\ SubSeq(s, i, i + Len(pat) - 1) = pat

\* s.endswith(suf)
EndsWith(s, suf) == OccursAt(s, Len(s) - Len(suf) + 1, suf)

\* c in s
Contains(s, c) == \E i \in 1..Len(s) : s[i] = c

\* s.replace(old, new) for a non-empty old: every non-overlapping occurrence,
\* leftmost first
RECURSIVE StrReplace(_, _, _)
StrReplace(s, old, new) ==
    LET occ == {i \in 1..Len(s) : OccursAt(s, i, old)}
    IN  IF occ = {} THEN s
        ELSE LET k == CHOOSE i \in occ : \A j \in occ : i <= j
             IN  SubSeq(s, 1, k - 1) \o new
                     \o StrReplace(Drop(s, k + Len(old)), old, new)

\* the characters str.strip() removes
Whitespace == {" "}

\* s.strip(): from the first to the last character that is not whitespace
Strip(s) ==
    LET keep == {i \in 1..Len(s) : s[i] \notin Whitespace}
    IN  IF keep = {} THEN <<>>
        ELSE SubSeq(s, CHOOSE i \in keep : \A j \in keep : i <= j,
                       CHOOSE i \in keep : \A j \in keep : i >= j)

\* s[:n]
Truncate(s, n) == SubSeq(s, 1, IF Len(s) < n THEN Len(s) ELSE n)

(***************************************************************************)
(* filenameClean                                                           *)
(***************************************************************************)
\* The non-ASCII characters of the model and what
\* unicodedata.normalize('NFKD', c).encode('ascii', 'ignore') leaves of each:
\* e-acute decomposes to e + a combining accent (dropped), the horizontal
\* ellipsis to three full stops, the euro sign to itself (dropped).
EAcute == "\\u00e9"

Ellipsis == "\\u2026"

Euro == "\\u20ac"

NfkdAsciiChar(c) ==
    CASE c = EAcute -> <<"e">>
      [] c = Ellipsis -> <<".", ".", ".">>
      [] c = Euro -> <<>>
      [] OTHER -> <<c>>

RECURSIVE NfkdAscii(_)
NfkdAscii(s) ==
    IF s = <<>> THEN <<>> ELSE NfkdAsciiChar(s[1]) \o NfkdAscii(Tail(s))

\* the character class of re.sub("[:/^\[\]\.]", "_", s)
UnsafeChars == {":", "/", "^", "[", "]", "."}

ReSubUnsafe(s) ==
    [i \in 1..Len(s) |-> IF s[i] \in UnsafeChars THEN "_" ELSE s[i]]

\* filenameClean without its first step: the extension is appended, never
\* stripped first
filenameCleanNoStrip(s, keepext) ==
    LET s2 == ReSubUnsafe(NfkdAscii(s))
    IN  IF Truthy(keepext) THEN s2 \o <<".">> \o keepext.v ELSE s2

filenameClean(s, keepext) ==
    LET s1 == IF Truthy(keepext) /\ EndsWith(s, <<".">> \o keepext.v)
              THEN StrReplace(s, <<".">> \o keepext.v, <<>>)
              ELSE s
        s2 == NfkdAscii(s1)
        s3 == ReSubUnsafe(s2)
    IN  IF Truthy(keepext) THEN s3 \o <<".">> \o keepext.v ELSE s3

(***************************************************************************)
(* Idle values of the variables a specification does not use.              *)
(***************************************************************************)
NoArgs == [format |-> <<>>, suggest |-> FALSE, rename |-> FALSE,
           no_action |-> FALSE, files |-> <<>>]

NoCall == [op |-> "none"]

ProgramIdle ==
    /\ argv = NoArgs
    /\ args = NoArgs
    /\ fs = <<>>
    /\ os = "posix"
    /\ todo = <<>>
    /\ stdout = <<>>
    /\ moves = <<>>
    /\ exc = "none"

ProgramUnchanged == UNCHANGED <<argv, args, fs, os, todo, stdout, moves, exc>>

(***************************************************************************)
(* The sanitizer on its own: filenameClean(s, e), then filenameClean of    *)
(* its result with the same e.                                             *)
(***************************************************************************)
CleanChars == {"a", ".", "^", EAcute, Ellipsis, Euro}

CleanExtChars == {"a", "."}

CleanExts == {PyNone} \cup {PyStr(e) : e \in SeqsUpTo(CleanExtChars, MaxExtLen)}

InitClean ==
    /\ ProgramIdle
    /\ pc = "call"
    /\ \E s \in SeqsUpTo(CleanChars, MaxLen), e \in CleanExts :
          call = [op |-> "filenameClean", s |-> s, keepext |-> e]
    /\ ret = <<>>

CallFilenameClean ==
    /\ pc = "call"
    /\ ret' = <<filenameClean(call.s, call.keepext)>>
    /\ pc' = "again"
    /\ UNCHANGED call
    /\ ProgramUnchanged

CallFilenameCleanAgain ==
    /\ pc = "again"
    /\ ret' = Append(ret, filenameClean(ret[1], call.keepext))
    /\ pc' = "returned"
    /\ UNCHANGED call
    /\ ProgramUnchanged

NextClean == CallFilenameClean \/ CallFilenameCleanAgain

SpecClean == InitClean /\ [][NextClean]_vars

\* the specified steps of the sanitizer: only the one trailing ".e" is
\* removed, and exactly five characters become "_"
SpecifiedUnsafeChars == {":", "/", "[", "]", "."}

SpecifiedClean(s, keepext) ==
    LET dotext == <<".">> \o keepext.v
        s1 == IF Truthy(keepext) /\ EndsWith(s, dotext)
              THEN SubSeq(s, 1, Len(s) - Len(dotext))
              ELSE s
        s2 == NfkdAscii(s1)
        s3 == [i \in 1..Len(s2) |->
                  IF s2[i] \in SpecifiedUnsafeChars THEN "_" ELSE s2[i]]
    IN  IF Truthy(keepext) THEN s3 \o dotext ELSE s3

\* the number of places where pat occurs in s
Occurrences(s, pat) == Cardinality({i \in 1..Len(s) : OccursAt(s, i, pat)})

\* C7: filename sanitization is idempotent: sanitizing the result of
\* filenameClean(s, e) again with the same e gives the same name, for every
\* s and e (empty s, empty or absent e, s holding ".e" more than once).
C7_Idempotent == pc = "returned" => ret[2] = ret[1]

\* C7's case: both calls made on an s that ends with ".e" and holds ".e"
\* twice, so that the strip step acted on the first call and on the second.
C7_Witness ==
    /\ pc = "returned"
    /\ Truthy(call.keepext)
    /\ EndsWith(call.s, <<".">> \o call.keepext.v)
    /\ Occurrences(call.s, <<".">> \o call.keepext.v) >= 2
    /\ ret[1] # call.s

\* C9: filenameClean(s, e) equals the specified steps in order: remove only
\* the one trailing ".e", drop or decompose non-ASCII characters, replace
\* exactly ':' '/' '[' ']' '.' by '_' and leave every other ASCII character
\* unchanged, append ".e" when e was supplied.
C9_AsSpecified ==
    pc # "call" => ret[1] = SpecifiedClean(call.s, call.keepext)

(***************************************************************************)
(* Selector                                                                *)
(*                                                                         *)
(* A parsed document (the PyQuery object self.d) is a record: tags maps a  *)
(* CSS selector to the text of the elements it matches, description and    *)
(* keywords are the content attributes of the two meta elements (None      *)
(* when the element or the attribute is missing).                          *)
(***************************************************************************)
\* the default of __get_selector__'s maxChars parameter
maxChars == 160

h1Name == <<"h", "1">>

titleName == <<"t", "i", "t", "l", "e">>

DescriptionName ==
    <<"_", "_", "d", "e", "s", "c", "r", "i", "p", "t", "i", "o", "n">>

KeywordsName == <<"_", "_", "k", "e", "y", "w", "o", "r", "d", "s">>

\* self.d(selector).text(): the empty string when nothing matches
QueryText(d, selector) ==
    IF selector \in DOMAIN d.tags THEN d.tags[selector] ELSE <<>>

\* re.sub(find, replace, s) for a find that is a literal, non-empty pattern
\* (no regular-expression operator in it): every non-overlapping occurrence,
\* leftmost first
ReSub(find, replace, s) == StrReplace(s, find, replace)

\* Selector.__get_selector__(selector, find, replace)
GetSelector(d, selector, find, replace) ==
    LET s  == QueryText(d, selector)
        s1 == IF Truthy(find) THEN ReSub(find.v, replace, s) ELSE s
    IN  Truncate(Strip(s1), maxChars)

\* Selector.__getattr__(selector): find and replace keep their defaults.
\* Python calls it for every name but the instance attribute d.
SelectorGetattr(d, selector) ==
    LET s == CASE selector = DescriptionName -> d.description
               [] selector = KeywordsName -> d.keywords
               [] OTHER -> PyStr(GetSelector(d, selector, PyNone, <<>>))
    IN  IF ~Truthy(s) THEN <<>> ELSE Strip(s.v)

\* Selector.__call__(selector, find, replace)
SelectorCall(d, selector, find, replace) ==
    GetSelector(d, selector, find, replace)

(***************************************************************************)
(* The selector engine on its own: one document, one selector name, read   *)
(* through sel.X and through sel('X', find=..., replace=...).              *)
(***************************************************************************)
Filler(n) == [i \in 1..n |-> "a"]

EdgeChars == {" ", "b"}

\* texts around the length cap: a filler of "a" between two short edges
SelTexts ==
    {pre \o Filler(n) \o suf :
        pre \in SeqsUpTo(EdgeChars, MaxEdge),
        suf \in SeqsUpTo(EdgeChars, MaxEdge),
        n \in {0} \cup ((maxChars - MaxEdge - 1)..(maxChars + 1))}

SelNames == {h1Name, DescriptionName, KeywordsName}

\* the document in which the selector name reads the text
DocWith(name, text) ==
    [tags |-> IF name = h1Name THEN (h1Name :> text) ELSE <<>>,
     description |-> IF name = DescriptionName THEN PyStr(text) ELSE PyNone,
     keywords |-> IF name = KeywordsName THEN PyStr(text) ELSE PyNone]

InitSel ==
    /\ ProgramIdle
    /\ pc = "call"
    /\ \E name \in SelNames, text \in SelTexts,
          find \in {PyNone, PyStr(<<"b">>)}, replace \in {<<>>, <<" ">>} :
          /\ ~Truthy(find) => replace = <<>>
          /\ call = [op |-> "sel", d |-> DocWith(name, text), selector |-> name,
                     find |-> find, replace |-> replace]
    /\ ret = <<>>

Made(how) == \E i \in 1..Len(ret) : ret[i].how = how

\* sel.X
SelGetattr ==
    /\ pc = "call"
    /\ ~Made("getattr")
    /\ ret' = Append(ret, [how |-> "getattr",
                           val |-> SelectorGetattr(call.d, call.selector)])
    /\ UNCHANGED <<pc, call>>
    /\ ProgramUnchanged

\* sel('X'), sel('X', find=..., replace=...); a reserved name is no selector
SelCall ==
    /\ pc = "call"
    /\ ~Made("call")
    /\ call.selector \notin {DescriptionName, KeywordsName}
    /\ ret' = Append(ret, [how |-> "call",
                           val |-> SelectorCall(call.d, call.selector,
                                                call.find, call.replace)])
    /\ UNCHANGED <<pc, call>>
    /\ ProgramUnchanged

NextSel == SelGetattr \/ SelCall

SpecSel == InitSel /\ [][NextSel]_vars

NoEdgeWhitespace(s) ==
    s = <<>> \/ (s[1] \notin Whitespace /\ s[Len(s)] \notin Whitespace)

\* C5: every selector query result, through attribute-style access (the
\* reserved __description and __keywords included) and through callable-style
\* access (with or without find/replace), has no leading or trailing
\* whitespace and is at most 160 characters long.
C5_StrippedAndCapped ==
    \A i \in 1..Len(ret) :
        NoEdgeWhitespace(ret[i].val) /\ Len(ret[i].val) <= maxChars

\* C6: for every non-reserved selector name X and every matched text, sel.X
\* returns exactly the string sel('X') returns when called without
\* find/replace.
C6_SameResult ==
    \A i, j \in 1..Len(ret) :
        ~Truthy(call.find) => ret[i].val = ret[j].val

(***************************************************************************)
(* Paths, files and archives                                               *)
(*                                                                         *)
(* All files live in one directory; a path is the file's name.  The file   *)
(* system fs maps the names of the existing files to their contents: a     *)
(* text file holds one text, a zip file a sequence of entries [name, body] *)
(* in the order ZipFile.namelist() gives them.  A text is held as what its *)
(* parser reads from it: markup as the parsed document, a descriptor as    *)
(* the attribute value of each recognised grandchild element.              *)
(***************************************************************************)
EmptyDoc == [tags |-> <<>>, description |-> PyNone, keywords |-> PyNone]

HtmlText(d) == [as |-> "html", d |-> d, keys |-> <<>>]

RdfText(keys) == [as |-> "rdf", d |-> EmptyDoc, keys |-> keys]

\* None, as readPath returns it for rdfStr
NoneText == [as |-> "none", d |-> EmptyDoc, keys |-> <<>>]

\* a local variable that was never assigned
Unbound == [as |-> "unbound", d |-> EmptyDoc, keys |-> <<>>]

TextFile(text) == [kind |-> "text", text |-> text, entries |-> <<>>]

ZipFile(entries) == [kind |-> "zip", text |-> NoneText, entries |-> entries]

\* path.is_file()
IsFile(files, path) == path \in DOMAIN files

\* the index of the last "." of name, 0 when it has none
LastDot(name) ==
    LET dots == {i \in 1..Len(name) : name[i] = "."}
    IN  IF dots = {} THEN 0 ELSE CHOOSE i \in dots : \A j \in dots : i >= j

\* pathlib's path.suffix: from the last ".", unless the name starts or ends
\* with it
Suffix(name) ==
    LET k == LastDot(name)
    IN  IF 1 < k /\ k < Len(name) THEN Drop(name, k) ELSE <<>>

\* pathlib's path.stem
Stem(name) ==
    LET k == LastDot(name)
    IN  IF 1 < k /\ k < Len(name) THEN SubSeq(name, 1, k - 1) ELSE name

ArchiveSuffixes == {<<".", "m", "a", "f", "f">>, <<".", "z", "i", "p">>}

IndexRdf == <<"/", "i", "n", "d", "e", "x", ".", "r", "d", "f">>

IndexHtml == <<"/", "i", "n", "d", "e", "x", ".", "h", "t", "m", "l">>

\* zf.open(name).read().decode("utf-8"): of several members with one name,
\* ZipFile opens the last
ZipOpen(entries, name) ==
    LET at == {i \in 1..Len(entries) : entries[i].name = name}
    IN  entries[CHOOSE i \in at : \A j \in at : i >= j].body

\* the loop of readPath stopped at the first match of each role
RECURSIVE ReadEntriesFirstMatch(_, _, _, _)
ReadEntriesFirstMatch(entries, i, htmlStr, rdfStr) ==
    IF i > Len(entries) THEN [htmlStr |-> htmlStr, rdfStr |-> rdfStr]
    ELSE LET zippedFile == entries[i].name
             rdf1 == IF EndsWith(zippedFile, IndexRdf) /\ rdfStr = NoneText
                     THEN ZipOpen(entries, zippedFile)
                     ELSE rdfStr
             html1 == IF EndsWith(zippedFile, IndexHtml) /\ htmlStr = Unbound
                      THEN ZipOpen(entries, zippedFile)
                      ELSE htmlStr
         IN  ReadEntriesFirstMatch(entries, i + 1, html1, rdf1)

\* the loop of readPath over zf.namelist(), from its i-th name on
RECURSIVE ReadEntries(_, _, _, _)
ReadEntries(entries, i, htmlStr, rdfStr) ==
    IF i > Len(entries) THEN [htmlStr |-> htmlStr, rdfStr |-> rdfStr]
    ELSE LET zippedFile == entries[i].name
             rdf1 == IF EndsWith(zippedFile, IndexRdf)
                     THEN ZipOpen(entries, zippedFile)
                     ELSE rdfStr
             html1 == IF EndsWith(zippedFile, IndexHtml)
                      THEN ZipOpen(entries, zippedFile)
                      ELSE htmlStr
         IN  ReadEntries(entries, i + 1, html1, rdf1)

Raised(e) == [exc |-> e, htmlStr |-> NoneText, rdfStr |-> NoneText]

\* readPath(path): htmlStr and rdfStr, or the exception it ends with.
\* read_text of a file that is no text gives markup without any tag;
\* htmlStr is assigned only inside the loop, so returning it unassigned
\* raises UnboundLocalError.
readPath(files, path) ==
    IF ~IsFile(files, path) THEN Raised("SystemExit")
    ELSE IF Suffix(path) \notin ArchiveSuffixes
    THEN [exc |-> "none",
          htmlStr |-> IF files[path].kind = "text" THEN files[path].text
                      ELSE HtmlText(EmptyDoc),
          rdfStr |-> NoneText]
    ELSE IF files[path].kind # "zip" THEN Raised("BadZipFile")
    ELSE LET r == ReadEntries(files[path].entries, 1, Unbound, NoneText)
         IN  IF r.htmlStr = Unbound THEN Raised("UnboundLocalError")
             ELSE [exc |-> "none", htmlStr |-> r.htmlStr, rdfStr |-> r.rdfStr]

(***************************************************************************)
(* The loader on its own: readPath on a path of a directory holding one    *)
(* archive and one plain document.                                         *)
(***************************************************************************)
DocT == [tags |-> (h1Name :> <<"T">>) @@ (titleName :> <<"U">>),
         description |-> PyNone, keywords |-> PyNone]

DocV == [tags |-> (h1Name :> <<"V">>), description |-> PyStr(<<"d">>),
         keywords |-> PyNone]

titleKey == <<"t", "i", "t", "l", "e">>

originalurlKey == <<"o", "r", "i", "g", "i", "n", "a", "l", "u", "r", "l">>

archivetimeKey == <<"a", "r", "c", "h", "i", "v", "e", "t", "i", "m", "e">>

indexfilenameKey == <<"i", "n", "d", "e", "x", "f", "i", "l", "e", "n", "a", "m", "e">>

KeysFull == (titleKey :> <<"T">>)
            @@ (originalurlKey :> <<"h", "t", "t", "p", "s", ":", "/", "/", "t", "e", "r", "o", "k", "a", "r", "v", "i", "n", "e", "n", ".", "c", "o", "m", "/">>)
            @@ (archivetimeKey :> <<"S", "a", "t", ",", " ", "1", "5", " ", "J", "u", "n", " ", "2", "0", "2", "4", " ", "0", "0", ":", "0", "0", ":", "0", "0", " ", "G", "M", "T">>)
            @@ (indexfilenameKey :> <<"i", "n", "d", "e", "x", ".", "h", "t", "m", "l">>)

KeysTitle == (titleKey :> <<"W">>)

\* the entries an archive of the harness is made of
EntryPool ==
    {[name |-> n, body |-> HtmlText(d)] :
        n \in {<<"1", "/", "i", "n", "d", "e", "x", ".", "h", "t", "m", "l">>, <<"2", "/", "i", "n", "d", "e", "x", ".", "h", "t", "m", "l">>}, d \in {DocT, DocV}}
    \cup {[name |-> n, body |-> RdfText(k)] :
        n \in {<<"1", "/", "i", "n", "d", "e", "x", ".", "r", "d", "f">>, <<"2", "/", "i", "n", "d", "e", "x", ".", "r", "d", "f">>}, k \in {KeysFull, KeysTitle}}
    \cup {[name |-> <<"i", "n", "d", "e", "x", ".", "h", "t", "m", "l">>, body |-> HtmlText(DocT)],
          [name |-> <<"1", "/", "a", ".", "c", "s", "s">>, body |-> HtmlText(EmptyDoc)]}

InitRead ==
    /\ ProgramIdle
    /\ pc = "call"
    /\ \E entries \in SeqsUpTo(EntryPool, MaxEntries),
          path \in {<<"a", ".", "m", "a", "f", "f">>, <<"a", ".", "z", "i", "p">>, <<"a", ".", "h", "t", "m", "l">>, <<"b", ".", "h", "t", "m", "l">>} :
          call = [op |-> "readPath", path |-> path,
                  files |-> (<<"a", ".", "m", "a", "f", "f">> :> ZipFile(entries))
                            @@ (<<"a", ".", "z", "i", "p">> :> TextFile(HtmlText(DocT)))
                            @@ (<<"a", ".", "h", "t", "m", "l">> :> TextFile(HtmlText(DocV)))]
    /\ ret = <<>>

CallReadPath ==
    /\ pc = "call"
    /\ call.op = "readPath"
    /\ ret' = <<readPath(call.files, call.path)>>
    /\ pc' = "returned"
    /\ UNCHANGED call
    /\ ProgramUnchanged

NextRead == CallReadPath

SpecRead == InitRead /\ [][NextRead]_vars

\* the positions of the entries whose name ends with suffix
Matching(entries, suffix) ==
    {i \in 1..Len(entries) : EndsWith(entries[i].name, suffix)}

ReadArchive ==
    /\ pc = "returned"
    /\ Suffix(call.path) \in ArchiveSuffixes
    /\ IsFile(call.files, call.path)
    /\ call.files[call.path].kind = "zip"

\* C3: loading an archive with no entry ending in /index.html is not an
\* error: readPath returns empty markup text, from which every tag-derived
\* value is empty.
C3_NoMarkupNoError ==
    (ReadArchive /\ Matching(call.files[call.path].entries, IndexHtml) = {})
        => /\ ret[1].exc = "none"
           /\ ret[1].htmlStr.d = EmptyDoc

archivedKey == <<"a", "r", "c", "h", "i", "v", "e", "d">>

yearKey == <<"y", "e", "a", "r">>

hostKey == <<"h", "o", "s", "t">>

archiveDatetimeKey == <<"a", "r", "c", "h", "i", "v", "e", "D", "a", "t", "e", "t", "i", "m", "e">>

\* parsedate_to_datetime(s) for the one date of the module docstring
\* (src/hoto.py:69-70); any other string is malformed and raises.  dt is
\* str(datetime), archived its strftime("%Y-%m-%d w%V %a").
ParseDate(s) ==
    IF s = <<"S", "a", "t", ",", " ", "1", "5", " ", "J", "u", "n", " ", "2", "0", "2", "4", " ", "0", "0", ":", "0", "0", ":", "0", "0", " ", "G", "M", "T">>
    THEN [exc |-> "none", dt |-> <<"2", "0", "2", "4", "-", "0", "6", "-", "1", "5", " ", "0", "0", ":", "0", "0", ":", "0", "0", "+", "0", "0", ":", "0", "0">>,
          archived |-> <<"2", "0", "2", "4", "-", "0", "6", "-", "1", "5", " ", "w", "2", "4", " ", "S", "a", "t">>, year |-> <<"2", "0", "2", "4">>]
    ELSE [exc |-> "ValueError", dt |-> <<>>, archived |-> <<>>, year |-> <<>>]

\* urlparse(url).netloc: what follows the first "//" up to the next "/", "?"
\* or "#"; empty without a "//"
Netloc(url) ==
    LET starts == {i \in 1..Len(url) : OccursAt(url, i, <<"/", "/">>)}
    IN  IF starts = {} THEN <<>>
        ELSE LET rest == Drop(url, FirstOf(starts) + 2)
                 stops == {i \in 1..Len(rest) : rest[i] \in {"/", "?", "#"}}
             IN  IF stops = {} THEN rest
                 ELSE SubSeq(rest, 1, FirstOf(stops) - 1)

\* RDF(rdfStr): the dict, or the exception the constructor ends with.  No
\* descriptor text gives the empty dict.
RDF(rdfStr) ==
    IF rdfStr.as = "none" THEN [exc |-> "none", dict |-> <<>>]
    ELSE LET base == [k \in DOMAIN rdfStr.keys |-> PyStr(rdfStr.keys[k])]
             date == IF archivetimeKey \in DOMAIN base
                     THEN ParseDate(base[archivetimeKey].v)
                     ELSE [exc |-> "none", dt |-> <<>>, archived |-> <<>>,
                           year |-> <<>>]
             dated == IF archivetimeKey \in DOMAIN base
                      THEN (archiveDatetimeKey :> PyStr(date.dt))
                           @@ (archivedKey :> PyStr(date.archived))
                           @@ (yearKey :> PyInt(date.year))
                           @@ base
                      ELSE base
             hosted == IF originalurlKey \in DOMAIN base
                       THEN (hostKey :> PyStr(Netloc(base[originalurlKey].v)))
                            @@ dated
                       ELSE dated
         IN  IF date.exc # "none" THEN [exc |-> date.exc, dict |-> <<>>]
             ELSE [exc |-> "none", dict |-> hosted]

\* dict.get(key) with the default None
DictGetNone(dict, key) == IF key \in DOMAIN dict THEN dict[key] ELSE PyNone

\* RDF.__getattr__ = dict.get
RdfGetattr(dict, key) == DictGetNone(dict, key)

(***************************************************************************)
(* The template evaluator: eval('f"' + args.format + '"')                  *)
(*                                                                         *)
(* The expressions of the model are the documented variable forms: a       *)
(* local name, sel.X, rdf.K, sel('X'), and an integer literal.  Any other  *)
(* expression raises (NameError for an unknown name, SyntaxError           *)
(* otherwise).  Format strings hold no quote, backslash, '!' or ':'.       *)
(***************************************************************************)
Digits == {"0", "1", "2", "3", "4", "5", "6", "7", "8", "9"}

IdentChars == {"a", "b", "c", "d", "e", "f", "g", "h", "i", "j", "k", "l", "m", "n", "o", "p", "q", "r", "s", "t", "u", "v", "w", "x", "y", "z", "_"} \cup Digits

IsIdentifier(e) ==
    /\ e # <<>>
    /\ \A i \in 1..Len(e) : e[i] \in IdentChars
    /\ e[1] \notin Digits

\* a decimal integer literal: no leading zero, unless it is all zeros
IsIntLiteral(e) ==
    /\ e # <<>>
    /\ \A i \in 1..Len(e) : e[i] \in Digits
    /\ (e[1] = "0" => \A i \in 1..Len(e) : e[i] = "0")

StartsWith(s, prefix) == OccursAt(s, 1, prefix)

Value(v) == [exc |-> "none", val |-> v]

EvalError(e) == [exc |-> e, val |-> PyNone]

\* eval(expr) in the scope of processFile: ctx.locals are the convenience
\* variables, ctx.sel the document of the Selector, ctx.rdf the RDF dict
Eval(expr, ctx) ==
    IF expr \in DOMAIN ctx.locals THEN Value(ctx.locals[expr])
    ELSE IF IsIntLiteral(expr) THEN Value(PyInt(expr))
    ELSE IF IsIdentifier(expr) THEN EvalError("NameError")
    ELSE IF StartsWith(expr, <<"s", "e", "l", ".">>) /\ IsIdentifier(Drop(expr, 5))
    THEN Value(PyStr(SelectorGetattr(ctx.sel, Drop(expr, 5))))
    ELSE IF StartsWith(expr, <<"r", "d", "f", ".">>) /\ IsIdentifier(Drop(expr, 5))
    THEN Value(RdfGetattr(ctx.rdf, Drop(expr, 5)))
    ELSE IF /\ StartsWith(expr, <<"s", "e", "l", "(", "'">>)
            /\ EndsWith(expr, <<"'", ")">>)
            /\ Len(expr) >= 7
            /\ ~Contains(SubSeq(expr, 6, Len(expr) - 2), "'")
    THEN Value(PyStr(SelectorCall(ctx.sel, SubSeq(expr, 6, Len(expr) - 2),
                                  PyNone, <<>>)))
    ELSE EvalError("SyntaxError")

\* format(v, ""): str(v)
StrOf(v) == IF v.t = "none" THEN <<"N", "o", "n", "e">> ELSE v.v

\* the f-string, scanned from position i with out rendered so far: "{{" and
\* "}}" are literal braces, "{expr}" is replaced by its value, a single "}"
\* and a "{" that is not closed are syntax errors
RECURSIVE RenderFrom(_, _, _, _)
RenderFrom(fmt, i, out, ctx) ==
    IF i > Len(fmt) THEN [exc |-> "none", out |-> out]
    ELSE IF fmt[i] = "{"
    THEN IF i < Len(fmt) /\ fmt[i + 1] = "{"
         THEN RenderFrom(fmt, i + 2, Append(out, "{"), ctx)
         ELSE LET closes == {j \in (i + 1)..Len(fmt) : fmt[j] = "}"}
              IN  IF closes = {} THEN [exc |-> "SyntaxError", out |-> <<>>]
                  ELSE LET j == FirstOf(closes)
                           expr == SubSeq(fmt, i + 1, j - 1)
                           r == Eval(expr, ctx)
                       IN  IF expr = <<>> \/ Contains(expr, "{")
                           THEN [exc |-> "SyntaxError", out |-> <<>>]
                           ELSE IF r.exc # "none"
                           THEN [exc |-> r.exc, out |-> <<>>]
                           ELSE RenderFrom(fmt, j + 1, out \o StrOf(r.val), ctx)
    ELSE IF fmt[i] = "}"
    THEN IF i < Len(fmt) /\ fmt[i + 1] = "}"
         THEN RenderFrom(fmt, i + 2, Append(out, "}"), ctx)
         ELSE [exc |-> "SyntaxError", out |-> <<>>]
    ELSE RenderFrom(fmt, i + 1, Append(out, fmt[i]), ctx)

\* eval('f"' + format + '"')
Render(fmt, ctx) == RenderFrom(fmt, 1, <<>>, ctx)

(***************************************************************************)
(* parseArgs, processFile, main                                            *)
(*                                                                         *)
(* argv is the command line as argparse reads it, args the namespace       *)
(* parseArgs returns (args.paths is todo, the paths main still has to      *)
(* process).  stdout holds what print() wrote: [kind |-> "text"] a         *)
(* rendered string a, [kind |-> "pair"] the rename of a to b,              *)
(* [kind |-> "suggest"] the value a of the expression b.  moves holds the  *)
(* calls of path.rename.  Logging goes to stderr and is left out.          *)
(***************************************************************************)
\* lines 153-154 left out: the format is taken as given
ParseFormatNeverWrap(format) == format

\* parseArgs, lines 153-154: braces are added around a format without "{"
ParseFormat(format) ==
    IF ~Contains(format, "{") THEN <<"{">> \o format \o <<"}">> ELSE format

\* parseArgs: every file must exist, or the program exits
parseArgs(av, files) ==
    IF \E i \in 1..Len(av.files) : ~IsFile(files, av.files[i])
    THEN [exc |-> "SystemExit", args |-> av]
    ELSE [exc |-> "none",
          args |-> [av EXCEPT !.format = ParseFormat(av.format)]]

\* path.rename(new) on this operating system: os.rename replaces an existing
\* file on POSIX and raises FileExistsError on Windows; the empty name is the
\* directory itself
PathRename(files, osname, path, new) ==
    IF new = <<>> THEN [exc |-> "IsADirectoryError", files |-> files]
    ELSE IF new = path THEN [exc |-> "none", files |-> files]
    ELSE IF new \in DOMAIN files /\ osname = "nt"
    THEN [exc |-> "FileExistsError", files |-> files]
    ELSE [exc |-> "none",
          files |-> [n \in (DOMAIN files \ {path}) \cup {new} |->
                        IF n = new THEN files[path] ELSE files[n]]]

Printed(kind, a, b) == [kind |-> kind, a |-> a, b |-> b]

Outcome(e, out, mv, files) ==
    [exc |-> e, out |-> out, moves |-> mv, files |-> files]

\* the convenience variables of processFile
Locals(path, sel, rdf) ==
    (<<"t", "i", "t", "l", "e">> :> PyStr(SelectorGetattr(sel, titleName)))
    @@ (<<"h", "1">> :> PyStr(SelectorGetattr(sel, h1Name)))
    @@ (<<"e", "x", "t">> :> PyStr(StrReplace(Suffix(path), <<".">>, <<>>)))
    @@ (<<"y", "e", "a", "r">> :> RdfGetattr(rdf, yearKey))
    @@ (<<"f", "i", "l", "e", "n", "a", "m", "e">> :> PyStr(path))
    @@ (<<"s", "t", "e", "m">> :> PyStr(Stem(path)))
    @@ (<<"a", "r", "c", "h", "i", "v", "e", "d">> :> RdfGetattr(rdf, archivedKey))
    @@ (<<"h", "o", "s", "t">> :> RdfGetattr(rdf, hostKey))

\* the expressions of --suggest with their values, in the order of line 284
SuggestCatalog(path, sel, rdf) ==
    LET l == Locals(path, sel, rdf)
    IN  << <<<<"s", "e", "l", ".", "h", "1">>, PyStr(SelectorGetattr(sel, h1Name))>>,
           <<<<"s", "e", "l", "(", "'", "h", "1", ":", "f", "i", "r", "s", "t", "'", ")">>,
             PyStr(SelectorCall(sel, <<"h", "1", ":", "f", "i", "r", "s", "t">>, PyNone, <<>>))>>,
           <<<<"s", "e", "l", ".", "t", "i", "t", "l", "e">>, PyStr(SelectorGetattr(sel, titleName))>>,
           <<<<"s", "e", "l", "(", "'", "h", "2", ":", "f", "i", "r", "s", "t", "'", ")">>,
             PyStr(SelectorCall(sel, <<"h", "2", ":", "f", "i", "r", "s", "t">>, PyNone, <<>>))>>,
           <<<<"s", "e", "l", "(", "'", "h", "1", "'", ",", "f", "i", "n", "d", "=", "'", "T", "e", "r", "o", "'", ",", "r", "e", "p", "l", "a", "c", "e", "=", "'", "S", "o", "m", "e", "o", "n", "e", "'", ")">>,
             PyStr(SelectorCall(sel, h1Name, PyStr(<<"T", "e", "r", "o">>), <<"S", "o", "m", "e", "o", "n", "e">>))>>,
           <<<<"p", "a", "t", "h">>, PyStr(path)>>,
           <<<<"p", "a", "t", "h", ".", "s", "u", "f", "f", "i", "x">>, PyStr(Suffix(path))>>,
           <<<<"p", "a", "t", "h", ".", "n", "a", "m", "e">>, PyStr(path)>>,
           <<<<"r", "d", "f", ".", "n", "o", "n", "e", "x", "i", "s", "t", "i", "n", "g", "k", "e", "y">>, RdfGetattr(rdf, <<"n", "o", "n", "e", "x", "i", "s", "t", "i", "n", "g", "k", "e", "y">>)>>,
           <<<<"r", "d", "f", ".", "o", "r", "i", "g", "i", "n", "a", "l", "u", "r", "l">>, RdfGetattr(rdf, originalurlKey)>>,
           <<<<"r", "d", "f", ".", "a", "r", "c", "h", "i", "v", "e", "d">>, RdfGetattr(rdf, archivedKey)>>,
           <<<<"r", "d", "f", ".", "y", "e", "a", "r">>, RdfGetattr(rdf, yearKey)>>,
           <<<<"s", "e", "l", ".", "_", "_", "d", "e", "s", "c", "r", "i", "p", "t", "i", "o", "n">>,
             PyStr(SelectorGetattr(sel, DescriptionName))>>,
           <<<<"s", "e", "l", ".", "_", "_", "k", "e", "y", "w", "o", "r", "d", "s">>, PyStr(SelectorGetattr(sel, KeywordsName))>>,
           <<<<"t", "i", "t", "l", "e">>, l[<<"t", "i", "t", "l", "e">>]>>,
           <<<<"e", "x", "t">>, l[<<"e", "x", "t">>]>>,
           <<<<"h", "1">>, l[<<"h", "1">>]>>,
           <<<<"y", "e", "a", "r">>, l[<<"y", "e", "a", "r">>]>>,
           <<<<"f", "i", "l", "e", "n", "a", "m", "e">>, l[<<"f", "i", "l", "e", "n", "a", "m", "e">>]>>,
           <<<<"s", "t", "e", "m">>, l[<<"s", "t", "e", "m">>]>>,
           <<<<"h", "o", "s", "t">>, l[<<"h", "o", "s", "t">>]>> >>

\* what --suggest prints: the path, then "val - key" for each expression,
\* "(not found)" standing for a value that is not truthy
Suggest(path, sel, rdf) ==
    LET cat == SuggestCatalog(path, sel, rdf)
    IN  <<Printed("text", <<"#", "#", " ">> \o path, <<>>)>>
        \o [i \in 1..Len(cat) |->
               Printed("suggest",
                       IF Truthy(cat[i][2]) THEN StrOf(cat[i][2])
                       ELSE <<"(", "n", "o", "t", " ", "f", "o", "u", "n", "d", ")">>,
                       cat[i][1])]

\* lines 295-306 with path.rename called whatever args.no_action says
RenameStepAlwaysMoves(path, a, files, osname, extracted) ==
    IF ~a.rename
    THEN Outcome("none", <<Printed("text", extracted, <<>>)>>, <<>>, files)
    ELSE LET ext == StrReplace(Suffix(path), <<".">>, <<>>)
             new == filenameClean(extracted, PyStr(ext))
             mv == PathRename(files, osname, path, new)
         IN  Outcome(mv.exc, <<Printed("pair", path, new)>>,
                     <<<<path, new>>>>, mv.files)

\* lines 295-306 of processFile: print the rendered string, or sanitize it,
\* print the pair and rename unless args.no_action
RenameStep(path, a, files, osname, extracted) ==
    IF ~a.rename
    THEN Outcome("none", <<Printed("text", extracted, <<>>)>>, <<>>, files)
    ELSE LET ext == StrReplace(Suffix(path), <<".">>, <<>>)
             new == filenameClean(extracted, PyStr(ext))
             mv == PathRename(files, osname, path, new)
         IN  IF a.no_action
             THEN Outcome("none", <<Printed("pair", path, new)>>, <<>>, files)
             ELSE Outcome(mv.exc, <<Printed("pair", path, new)>>,
                          <<<<path, new>>>>, mv.files)

\* processFile(path, args): what it prints, the renames it calls, the file
\* system it leaves and the exception it ends with
processFile(path, a, files, osname) ==
    LET read == readPath(files, path)
        sel == read.htmlStr.d
        rdf == RDF(read.rdfStr)
        ctx == [sel |-> sel, rdf |-> rdf.dict,
                locals |-> Locals(path, sel, rdf.dict)]
        extracted == Render(a.format, ctx)
    IN  IF read.exc # "none" THEN Outcome(read.exc, <<>>, <<>>, files)
        ELSE IF rdf.exc # "none" THEN Outcome(rdf.exc, <<>>, <<>>, files)
        ELSE IF a.suggest
        THEN Outcome("none", Suggest(path, sel, rdf.dict), <<>>, files)
        ELSE IF extracted.exc # "none"
        THEN Outcome(extracted.exc, <<>>, <<>>, files)
        ELSE RenameStep(path, a, files, osname, extracted.out)

(***************************************************************************)
(* The program: main() on a command line, in a directory of documents.     *)
(***************************************************************************)
DocT2 == [tags |-> (h1Name :> <<"T">>) @@ (titleName :> <<"X">>),
          description |-> PyNone, keywords |-> PyNone]

DocS == [tags |-> (h1Name :> <<"A", ":", "B">>), description |-> PyNone,
         keywords |-> PyNone]

KeysBadDate == (archivetimeKey :> <<"s", "o", "o", "n">>)

MarkupEntry(d) == [name |-> <<"1", "/", "i", "n", "d", "e", "x", ".", "h", "t", "m", "l">>, body |-> HtmlText(d)]

DescriptorEntry(k) == [name |-> <<"1", "/", "i", "n", "d", "e", "x", ".", "r", "d", "f">>, body |-> RdfText(k)]

\* a directory: two plain documents with the same h1, an archive with a
\* descriptor, one without a descriptor, one without markup, one with a
\* malformed date, a file without a suffix
Dir ==
    (<<"a", ".", "h", "t", "m", "l">> :> TextFile(HtmlText(DocT)))
    @@ (<<"b", ".", "h", "t", "m", "l">> :> TextFile(HtmlText(DocT2)))
    @@ (<<"c", ".", "m", "a", "f", "f">> :> ZipFile(<<MarkupEntry(DocT), DescriptorEntry(KeysFull)>>))
    @@ (<<"d", ".", "m", "a", "f", "f">> :> ZipFile(<<MarkupEntry(DocS)>>))
    @@ (<<"e", ".", "m", "a", "f", "f">> :> ZipFile(<<DescriptorEntry(KeysTitle)>>))
    @@ (<<"f", ".", "m", "a", "f", "f">> :> ZipFile(<<MarkupEntry(DocV), DescriptorEntry(KeysBadDate)>>))
    @@ (<<"g">> :> TextFile(HtmlText(DocV)))

\* the same directory with a document already named after that h1
DirTaken == (<<"T", ".", "h", "t", "m", "l">> :> TextFile(HtmlText(DocV))) @@ Dir

\* the names a command line of several documents may give; x.html does not
\* exist
PathPool == {<<"a", ".", "h", "t", "m", "l">>, <<"b", ".", "h", "t", "m", "l">>,
             <<"T", ".", "h", "t", "m", "l">>, <<"d", ".", "m", "a", "f", "f">>,
             <<"e", ".", "m", "a", "f", "f">>, <<"g">>,
             <<"x", ".", "h", "t", "m", "l">>}

DefaultFormat == <<"{", "h", "1", "}", ".", "{", "e", "x", "t", "}">>

FmtChars == {"{", "}", "h", "1"}

NamedFormats ==
    {DefaultFormat, <<"{", "t", "i", "t", "l", "e", "}", ".", "{", "e", "x", "t", "}">>, <<"s", "e", "l", ".", "t", "i", "t", "l", "e">>, <<"{", "s", "e", "l", ".", "h", "2", "}">>,
     <<"s", "e", "l", "(", "'", "h", "1", "'", ")">>, <<"{", "r", "d", "f", ".", "h", "o", "s", "t", "}">>, <<"r", "d", "f", ".", "y", "e", "a", "r">>, <<"{", "r", "d", "f", ".", "n", "o", "n", "e", "x", "i", "s", "t", "i", "n", "g", "k", "e", "y", "}">>,
     <<"{", "r", "d", "f", ".", "a", "r", "c", "h", "i", "v", "e", "d", "}", " ", "{", "r", "d", "f", ".", "o", "r", "i", "g", "i", "n", "a", "l", "u", "r", "l", "}", " ", "{", "r", "d", "f", ".", "h", "o", "s", "t", "}">>, <<"{", "y", "e", "a", "r", "}">>,
     <<"a", "r", "c", "h", "i", "v", "e", "d">>, <<"{", "h", "o", "s", "t", "}">>, <<"{", "s", "t", "e", "m", "}", " ", "-", " ", "{", "h", "1", "}", " ", "-", " ", "2", "0", "2", "4", ".", "{", "e", "x", "t", "}">>,
     <<"{", "s", "e", "l", ".", "_", "_", "d", "e", "s", "c", "r", "i", "p", "t", "i", "o", "n", "}">>}

RenameFormats == {DefaultFormat, <<"{", "t", "i", "t", "l", "e", "}", ".", "{", "e", "x", "t", "}">>, <<"{", "s", "t", "e", "m", "}", ".", "{", "e", "x", "t", "}">>,
                  <<"h", "1">>, <<"{", "s", "e", "l", ".", "h", "2", "}">>}

\* printing: any format, one document
InitPrint ==
    /\ \E format \in SeqsUpTo(FmtChars, MaxFmtLen) \cup NamedFormats,
          path \in {<<"a", ".", "h", "t", "m", "l">>,
                    <<"c", ".", "m", "a", "f", "f">>,
                    <<"d", ".", "m", "a", "f", "f">>,
                    <<"f", ".", "m", "a", "f", "f">>} :
          argv = [format |-> format, suggest |-> FALSE, rename |-> FALSE,
                  no_action |-> FALSE, files |-> <<path>>]
    /\ fs = Dir
    /\ os = "posix"

\* any flags, several documents; --suggest returns before the other two
\* flags are read, and the operating system shows only in a rename
InitFlags ==
    /\ \E format \in RenameFormats, suggest \in BOOLEAN, rename \in BOOLEAN,
          no_action \in BOOLEAN, files \in SeqsUpTo(PathPool, MaxFiles) :
          /\ suggest => ~rename /\ ~no_action
          /\ argv = [format |-> format, suggest |-> suggest,
                     rename |-> rename, no_action |-> no_action,
                     files |-> files]
          /\ os \in IF rename /\ ~no_action THEN {"posix", "nt"} ELSE {"posix"}
    /\ fs \in {Dir, DirTaken}

Init ==
    /\ InitPrint \/ InitFlags
    /\ pc = "start"
    /\ args = NoArgs
    /\ todo = <<>>
    /\ stdout = <<>>
    /\ moves = <<>>
    /\ exc = "none"
    /\ call = NoCall
    /\ ret = <<>>

\* args = parseArgs()
ParseArgs ==
    /\ pc = "start"
    /\ LET r == parseArgs(argv, fs)
       IN  /\ exc' = r.exc
           /\ args' = r.args
           /\ todo' = IF r.exc = "none" THEN r.args.files ELSE <<>>
           /\ pc' = IF r.exc # "none" THEN "exit"
                    ELSE IF r.args.files = <<>> THEN "done"
                    ELSE "parsed"
    /\ UNCHANGED <<argv, fs, os, stdout, moves, call, ret>>

\* one turn of main's loop: processFile(path, args) on the next path
ProcessFile ==
    /\ pc = "parsed"
    /\ todo # <<>>
    /\ LET r == processFile(Head(todo), args, fs, os)
       IN  /\ stdout' = stdout \o r.out
           /\ moves' = moves \o r.moves
           /\ fs' = r.files
           /\ exc' = r.exc
           /\ pc' = IF r.exc # "none" THEN "exit"
                    ELSE IF Tail(todo) = <<>> THEN "done"
                    ELSE "parsed"
    /\ todo' = Tail(todo)
    /\ UNCHANGED <<argv, args, os, call, ret>>

Next == ParseArgs \/ ProcessFile

Spec == Init /\ [][Next]_vars

\* the one document of a printing run, once main has ended
PrintedOne ==
    /\ pc \in {"done", "exit"}
    /\ ~argv.rename
    /\ ~argv.suggest
    /\ Len(argv.files) = 1
    /\ IsFile(fs, argv.files[1])

DescriptorFormats ==
    {<<"{", "r", "d", "f", ".", "h", "o", "s", "t", "}">>, <<"r", "d", "f", ".", "y", "e", "a", "r">>, <<"{", "r", "d", "f", ".", "n", "o", "n", "e", "x", "i", "s", "t", "i", "n", "g", "k", "e", "y", "}">>, <<"{", "y", "e", "a", "r", "}">>,
     <<"a", "r", "c", "h", "i", "v", "e", "d">>, <<"{", "h", "o", "s", "t", "}">>}

\* C1: for a document without a descriptor (a plain markup document, an
\* archive without an index.rdf entry), rendering a descriptor lookup
\* rdf.<key> or a descriptor-derived convenience variable (year, archived,
\* host) yields the empty string: never an error, never the text "None".
C1_MissingRendersEmpty ==
    (/\ PrintedOne
     /\ argv.format \in DescriptorFormats
     /\ readPath(fs, argv.files[1]).exc = "none"
     /\ readPath(fs, argv.files[1]).rdfStr = NoneText)
        => /\ exc = "none"
           /\ stdout = <<Printed("text", <<>>, <<>>)>>

\* a step of main's loop
ProcessStep == pc = "parsed" /\ todo # <<>> /\ todo' = Tail(todo)

\* C2: in rename mode with --no-action, processFile never calls the move,
\* and the (old, new) pair it prints is the pair the same call without
\* --no-action prints and hands to the move.
C2_DryRunReportsSamePair ==
    [][(ProcessStep /\ args.rename /\ args.no_action /\ ~args.suggest)
         => LET wet == processFile(Head(todo),
                                   [args EXCEPT !.no_action = FALSE], fs, os)
            IN  /\ moves' = moves
                /\ fs' = fs
                /\ stdout' = stdout \o wet.out
                /\ \A i \in 1..Len(wet.moves) :
                       wet.moves[i] = <<wet.out[i].a, wet.out[i].b>>]_vars

\* C2's case: a dry run that printed the pair of a rename to another name.
C2_Witness ==
    /\ pc = "done"
    /\ args.rename /\ args.no_action /\ ~args.suggest
    /\ stdout # <<>>
    /\ stdout[1].kind = "pair"
    /\ stdout[1].a # stdout[1].b
    /\ moves = <<>>

\* a brace-delimited span, as the f-string reads fmt from position i: a "{"
\* that is no "{{" escape and is closed by a later "}"
RECURSIVE HasSpanFrom(_, _)
HasSpanFrom(fmt, i) ==
    IF i > Len(fmt) THEN FALSE
    ELSE IF fmt[i] \in {"{", "}"} /\ i < Len(fmt) /\ fmt[i + 1] = fmt[i]
    THEN HasSpanFrom(fmt, i + 2)
    ELSE IF fmt[i] = "{" THEN \E j \in (i + 1)..Len(fmt) : fmt[j] = "}"
    ELSE HasSpanFrom(fmt, i + 1)

HasSpan(fmt) == HasSpanFrom(fmt, 1)

\* what processing the one document prints or raises when the format is
\* argv's, wrapped in one pair of braces by hand
WrappedOutcome ==
    processFile(argv.files[1],
                [argv EXCEPT !.format = <<"{">> \o argv.format \o <<"}">>],
                fs, os)

\* C8 (as stated): a format string without a brace-delimited span is treated
\* as one variable reference: rendering it gives what rendering the string
\* wrapped in one pair of braces gives; a format string that holds a span
\* is left unchanged.
C8_NoSpanIsWrapped ==
    PrintedOne
        => /\ ~HasSpan(argv.format)
                => exc = WrappedOutcome.exc /\ stdout = WrappedOutcome.out
           /\ HasSpan(argv.format) => args.format = argv.format

\* C8 (amended): a format string without the character "{" is treated as
\* one variable reference: rendering it gives what rendering the string
\* wrapped in one pair of braces gives; a format string that holds "{", so
\* every one that holds a span, is left unchanged.
C8_NoBraceIsWrapped ==
    PrintedOne
        => /\ ~Contains(argv.format, "{")
                => exc = WrappedOutcome.exc /\ stdout = WrappedOutcome.out
           /\ Contains(argv.format, "{") => args.format = argv.format
           /\ HasSpan(argv.format) => Contains(argv.format, "{")

\* C8's case: a format without braces was rendered as a variable, not as
\* the literal text.
C8_Witness ==
    /\ PrintedOne
    /\ pc = "done"
    /\ ~Contains(argv.format, "{")
    /\ args.format # argv.format
    /\ stdout # <<>>
    /\ stdout[1].a # argv.format
    /\ stdout[1].a # <<>>

\* C10: in rename mode without --no-action, a rename never replaces a file
\* that exists at the new path: no file of the directory is lost or
\* overwritten by the rename of a document, so no two documents of one run
\* end up at the same path.
C10_NeverReplaces ==
    [][ProcessStep
         => /\ Cardinality(DOMAIN fs') = Cardinality(DOMAIN fs)
            /\ \A n \in DOMAIN fs \cap DOMAIN fs' :
                   n # Head(todo) => fs'[n] = fs[n]]_vars

====
